---- MODULE Spec2Model ----
\* Verdict logic of the WDL conformance-test runners
\* (scripts/run_tests_{miniwdl,sprocket,cromwell,toil}.py).
\*
\* One test case (config) and one executor outcome (p) are drawn in Init;
\* an action applies a runner's run_test or check to them and stores the
\* verdict.  JSON values are records [kind, segs]: a string is kept as the
\* sequence of its "/"-separated segments so that pathlib's Path(v).name is
\* computable; a list keeps its items; null is Python's None.
EXTENDS Integers, Sequences, FiniteSets, TLC

VARIABLES runner, check_only, no_warn, deprecated_optional, output_dir, fs,
          config, p, result, pc,
          \* extract_tests.py: the match being written, the target version,
          \* the config list, the files of output_dir, the scanner's line
          \* count, last line and buffer, and test_config.json
          m, version, registry, files, ln, line, buf, registry_file,
          \* main of a runner: the loaded registry, what the executor does
          \* on each case, the loop index, the tally and the failed tests
          configs, outcomes, i, results, failed_tests, failed_file

runVars == <<runner, check_only, no_warn, deprecated_optional, output_dir, fs,
             config, p>>
extractVars == <<m, version, registry, files, ln, line, buf, registry_file>>
mainVars == <<configs, outcomes, i, results, failed_tests, failed_file>>
vars == <<runVars, result, pc, extractVars, mainVars>>

\* ---------------------------------------------------------------- bounds
\* Largest return code the executor or check tool reports.
MaxRc == 1

\* ---------------------------------------------------------------- verdicts
PASS == "pass"
WARN == "warn"
FAIL == "fail"
INVALID == "invalid"
IGNORE == "ignore"
Result == {PASS, WARN, FAIL, INVALID, IGNORE}
\* An exception left the function: no Result is returned.
RAISED == "raised"

\* ---------------------------------------------------------------- values
Str(segs) == [kind |-> "str", segs |-> segs]
List(items) == [kind |-> "list", segs |-> items]
None == [kind |-> "null", segs |-> <<>>]

XOut == Str(<<"x", "out">>)
YOut == Str(<<"y", "out">>)
RunOut == Str(<<"run", "out">>)
BareOut == Str(<<"out">>)
ListAB == List(<<"a.txt", "b.txt">>)

Keys == {"k1", "k2"}
ProducedValues == {XOut, YOut, RunOut}
ExpectedValues == {XOut, BareOut, ListAB}
Mappings(V) == UNION {[D -> V] : D \in SUBSET Keys}
EmptyMapping == [k \in {} |-> None]

\* The filesystem the runner sees: "run/out" exists, as a regular file or as
\* a directory holding the named files; no other modelled string exists.
FsStates == {"file", "dirAB", "dirAC"}
DirFiles(f) ==
    IF f = "dirAB" THEN {"a.txt", "b.txt"}
    ELSE IF f = "dirAC" THEN {"a.txt", "c.txt"}
    ELSE {}
PathExists(segs) == segs = <<"run", "out">>
PathName(segs) == IF Len(segs) = 0 THEN "" ELSE segs[Len(segs)]

\* ---------------------------------------------------------------- returnCodes
Wildcard == [kind |-> "wild", codes |-> <<>>]
BareCode(n) == [kind |-> "int", codes |-> <<n>>]
CodeList(s) == [kind |-> "list", codes |-> s]
ReturnCodes == {Wildcard, BareCode(0), CodeList(<<0>>), CodeList(<<0, 1>>)}
IsWildcard(e) == e.kind = "wild"
\* Python's rc == expected_rc: an int equals an int of the same value and
\* never equals a list or the string "*".
RcEquals(rc, e) == e.kind = "int" /\ e.codes[1] = rc
\* Membership of the actual code in a collection of codes.
RcMember(rc, e) == \E j \in 1..Len(e.codes) : e.codes[j] = rc

\* ---------------------------------------------------------------- normalisers
\* Variant: an existing path is handed back whole instead of as its name.
get_filename_if_path_whole(val) == val

get_filename_if_path(val) ==
    IF val.kind = "str"
    THEN IF PathExists(val.segs) THEN Str(<<PathName(val.segs)>>) ELSE val
    ELSE val

normalize_paths(d) ==
    [k \in DOMAIN d |->
        IF d[k].kind = "str" THEN Str(<<PathName(d[k].segs)>>) ELSE d[k]]

\* dict.get(key): the value, or None when the key is absent.
DictGet(d, k) == IF k \in DOMAIN d THEN d[k] ELSE None

\* ---------------------------------------------------------------- comparison
\* Keys appended to `invalid` by the loop of miniwdl's and sprocket's run_test.
InvalidProducedKeys(c, outputs) ==
    {k \in DOMAIN outputs :
        /\ k \notin c.exclude_output
        /\ \/ k \notin DOMAIN c.output
           \/ /\ k \in DOMAIN c.output
              /\ get_filename_if_path(outputs[k])
                   # get_filename_if_path(c.output[k])}

\* Keys appended to `invalid` by the loop of cromwell's run_test.
InvalidCromwellKeys(c, outputs) ==
    {k \in DOMAIN c.output :
        get_filename_if_path(DictGet(outputs, k))
          # get_filename_if_path(c.output[k])}

\* Keys appended to `invalid` by the loop of toil's run_test.
InvalidToilKeys(c, outputs) ==
    LET outputs_norm == normalize_paths(outputs)
        expected_norm == normalize_paths(c.output)
    IN {k \in DOMAIN outputs_norm :
          /\ k \notin c.exclude_output
          /\ \/ DictGet(expected_norm, k) = None
             \/ outputs_norm[k] # DictGet(expected_norm, k)}

\* load_cromwell_outputs: "ok" with the outputs mapping, or the exception it
\* raises (missing file, invalid JSON, JSON that is not an object).  The
\* modelled metadata carries no "calls".
load_cromwell_outputs(q) ==
    IF q.form = "object" THEN [ok |-> TRUE, outputs |-> q.outputs]
    ELSE [ok |-> FALSE, outputs |-> EmptyMapping]

\* ---------------------------------------------------------------- run_test
\* Variant: the return-code comparison is made before the expected-failure
\* branch instead of inside its else.
run_test_miniwdl_rc_first(c, q) ==
    IF c.priority = "ignore" THEN IGNORE
    ELSE IF q.launch = "error" THEN RAISED
    ELSE IF ~IsWildcard(c.returnCodes) /\ ~RcEquals(q.returncode, c.returnCodes)
         THEN FAIL
    ELSE IF c.fail
         THEN IF q.returncode # 0 THEN PASS ELSE FAIL
    ELSE IF ~IsWildcard(c.returnCodes) /\ q.returncode # 0
         THEN FAIL
    ELSE IF q.form \in {"garbage", "missing"} THEN FAIL
    ELSE IF q.form = "nonobject" THEN RAISED
    ELSE IF InvalidProducedKeys(c, q.outputs) # {} THEN FAIL
    ELSE PASS

run_test_miniwdl(c, q) ==
    IF c.priority = "ignore" THEN IGNORE
    ELSE IF q.launch = "error" THEN RAISED
    ELSE IF c.fail
         THEN IF q.returncode # 0 THEN PASS ELSE FAIL
    ELSE IF ~IsWildcard(c.returnCodes) /\ ~RcEquals(q.returncode, c.returnCodes)
         THEN FAIL
    ELSE IF ~IsWildcard(c.returnCodes) /\ q.returncode # 0
         THEN FAIL
    ELSE IF q.form \in {"garbage", "missing"} THEN FAIL
    ELSE IF q.form = "nonobject" THEN RAISED
    ELSE IF InvalidProducedKeys(c, q.outputs) # {} THEN FAIL
    ELSE PASS

run_test_sprocket(c, q, odir) ==
    IF c.priority = "ignore" THEN IGNORE
    ELSE IF odir = "none" THEN RAISED
    ELSE IF q.launch = "error" THEN RAISED
    ELSE IF c.fail
         THEN IF q.returncode # 0 THEN PASS ELSE FAIL
    ELSE IF IsWildcard(c.returnCodes) \/ RcEquals(q.returncode, c.returnCodes)
         THEN IF q.returncode # 0 THEN FAIL
              ELSE IF q.form \in {"garbage", "missing"} THEN FAIL
              ELSE IF q.form = "nonobject" THEN RAISED
              ELSE IF InvalidProducedKeys(c, q.outputs) # {} THEN FAIL
              ELSE PASS
    ELSE FAIL

run_test_cromwell(c, q) ==
    IF c.priority = "ignore" THEN IGNORE
    ELSE IF q.launch = "error" THEN RAISED
    ELSE IF c.fail
         THEN IF q.returncode # 0 THEN PASS ELSE FAIL
    ELSE IF ~IsWildcard(c.returnCodes) /\ ~RcEquals(q.returncode, c.returnCodes)
         THEN FAIL
    ELSE IF q.returncode # 0 THEN FAIL
    ELSE IF ~load_cromwell_outputs(q).ok THEN FAIL
    ELSE IF InvalidCromwellKeys(c, load_cromwell_outputs(q).outputs) # {}
         THEN FAIL
    ELSE PASS

run_test_toil(c, q) ==
    IF c.priority = "ignore" THEN IGNORE
    ELSE IF ~q.wdl_exists THEN RAISED
    ELSE IF q.launch = "error"
         THEN IF c.fail THEN PASS ELSE FAIL
    ELSE IF ~c.fail /\ q.returncode # 0 THEN FAIL
    ELSE IF c.fail
         THEN IF q.returncode = 0 THEN FAIL ELSE PASS
    ELSE IF ~IsWildcard(c.returnCodes) /\ ~RcEquals(q.returncode, c.returnCodes)
         THEN FAIL
    ELSE IF q.returncode # 0 THEN FAIL
    ELSE IF q.form = "missing" THEN PASS
    ELSE IF q.form = "garbage" THEN FAIL
    ELSE IF q.form = "nonobject" THEN RAISED
    ELSE IF InvalidToilKeys(c, q.outputs) # {} THEN FAIL
    ELSE PASS

\* Dispatch on the engine, as each script's main calls its own run_test.
RunTest(r, c, q, odir) ==
    IF r = "miniwdl" THEN run_test_miniwdl(c, q)
    ELSE IF r = "sprocket" THEN run_test_sprocket(c, q, odir)
    ELSE IF r = "cromwell" THEN run_test_cromwell(c, q)
    ELSE run_test_toil(c, q)

\* ---------------------------------------------------------------- check
\* Variant: the last branch returns FAIL whether or not the case is expected
\* to fail.
check_miniwdl_fail_last(c, q, nw, dopt) ==
    IF q.launch = "error" THEN RAISED
    ELSE IF q.returncode = 0 THEN PASS
    ELSE IF c.priority = "ignore" THEN IGNORE
    ELSE IF c.fail /\ nw THEN WARN
    ELSE IF dopt /\ "deprecated" \in c.tags THEN WARN
    ELSE FAIL

check_miniwdl(c, q, nw, dopt) ==
    IF q.launch = "error" THEN RAISED
    ELSE IF q.returncode = 0 THEN PASS
    ELSE IF c.priority = "ignore" THEN IGNORE
    ELSE IF c.fail /\ nw THEN WARN
    ELSE IF dopt /\ "deprecated" \in c.tags THEN WARN
    ELSE IF c.fail THEN WARN ELSE FAIL

\* The command list of sprocket's check reads input_path, a name that is
\* neither a parameter nor a global: building it raises NameError.
check_sprocket(c, q, nw, dopt) ==
    LET input_path_bound == FALSE
    IN IF ~input_path_bound THEN RAISED
       ELSE IF q.launch = "error" THEN RAISED
       ELSE IF q.returncode = 0 THEN PASS
       ELSE IF c.priority = "ignore" THEN IGNORE
       ELSE IF c.fail /\ nw THEN WARN
       ELSE IF dopt /\ "deprecated" \in c.tags THEN WARN
       ELSE IF c.fail THEN WARN ELSE FAIL

check_toil(c, q) ==
    IF ~q.wdl_exists THEN RAISED
    ELSE IF q.launch = "error" THEN FAIL
    ELSE IF q.returncode = 0 THEN PASS
    ELSE IF c.priority = "ignore" THEN IGNORE
    ELSE FAIL

\* ---------------------------------------------------------------- inputs
Runners == {"miniwdl", "sprocket", "cromwell", "toil"}
CheckRunners == {"miniwdl", "sprocket", "toil"}
Forms == {"missing", "garbage", "nonobject", "object"}

\* Executor (or check tool) outcomes.  launch = "error": subby.cmd raised
\* instead of returning; wdl_exists: the case's path names a file (read by
\* toil's resolve_wdl_path); form: what the structured output holds.
\* Fields that cannot be read in a situation are kept at one value.
Outcomes ==
    {q \in [launch : {"ok", "error"}, wdl_exists : BOOLEAN,
            returncode : 0..MaxRc, form : Forms,
            outputs : Mappings(ProducedValues)] :
        /\ q.form # "object" => q.outputs = EmptyMapping
        /\ (q.launch = "error" \/ ~q.wdl_exists) =>
              /\ q.returncode = 0
              /\ q.form = "missing"
        /\ ~q.wdl_exists => q.launch = "ok"}

CheckOutcomes == {q \in Outcomes : q.form = "missing"}

ExcludableKeys == {"k2"}

Cases ==
    [path : {"t.wdl"}, priority : {"required", "ignore"}, fail : BOOLEAN,
     returnCodes : ReturnCodes, exclude_output : SUBSET ExcludableKeys,
     output : Mappings(ExpectedValues), tags : {{}}]

CheckCases ==
    [path : {"t.wdl"}, priority : {"required", "ignore"}, fail : BOOLEAN,
     returnCodes : {Wildcard}, exclude_output : {{}},
     output : {EmptyMapping}, tags : {{}, {"deprecated"}}]

Produces(q, v) == \E k \in DOMAIN q.outputs : q.outputs[k] = v

\* ---------------------------------------------------------------- Init
\* Values of the state of the parts of the repository a specification does
\* not run.
NoFile == [written |-> FALSE, content |-> <<>>]
NoBuffer == [open |-> FALSE, lines |-> <<>>]
NoMatch == [file_name |-> <<>>, wdl |-> <<>>,
            input_json |-> [kind |-> "none"], output_json |-> [kind |-> "none"],
            config_json |-> [kind |-> "none"]]
NoLine == [shape |-> "none", example |-> NoMatch]
ExtractIdle ==
    /\ m = NoMatch /\ version = "1.1" /\ registry = <<>> /\ files = {}
    /\ ln = 0 /\ line = NoLine /\ buf = NoBuffer /\ registry_file = NoFile
RunIdle ==
    /\ runner = "none" /\ check_only = FALSE /\ no_warn = FALSE
    /\ deprecated_optional = FALSE /\ output_dir = "none" /\ fs = "file"
    /\ config = EmptyMapping /\ p = EmptyMapping
ZeroTally == [v \in Result |-> 0]
MainIdle ==
    /\ configs = <<>> /\ outcomes = <<>> /\ i = 0 /\ results = ZeroTally
    /\ failed_tests = <<>> /\ failed_file = NoFile

InitRun ==
    /\ ExtractIdle /\ MainIdle
    /\ runner \in Runners
    /\ check_only = FALSE
    /\ no_warn = FALSE
    /\ deprecated_optional = FALSE
    /\ output_dir \in {"given", "none"}
    /\ output_dir = "none" => runner = "sprocket"
    /\ config \in Cases
    /\ p \in Outcomes
    /\ ~p.wdl_exists => runner = "toil"
    /\ fs \in FsStates
    /\ fs # "file" => Produces(p, RunOut)
    /\ result = "none"
    /\ pc = "ready"

InitCheck ==
    /\ ExtractIdle /\ MainIdle
    /\ runner \in CheckRunners
    /\ check_only = TRUE
    /\ no_warn \in BOOLEAN
    /\ deprecated_optional \in BOOLEAN
    /\ runner = "toil" => ~no_warn /\ ~deprecated_optional
    /\ output_dir = "given"
    /\ config \in CheckCases
    /\ p \in CheckOutcomes
    /\ ~p.wdl_exists => runner = "toil"
    /\ fs = "file"
    /\ result = "none"
    /\ pc = "ready"

\* ---------------------------------------------------------------- actions
Return(v) ==
    /\ result' = v
    /\ pc' = "returned"
    /\ UNCHANGED <<runVars, extractVars, mainVars>>

RunTestMiniwdl ==
    /\ pc = "ready" /\ ~check_only /\ runner = "miniwdl"
    /\ Return(run_test_miniwdl(config, p))

RunTestSprocket ==
    /\ pc = "ready" /\ ~check_only /\ runner = "sprocket"
    /\ Return(run_test_sprocket(config, p, output_dir))

RunTestCromwell ==
    /\ pc = "ready" /\ ~check_only /\ runner = "cromwell"
    /\ Return(run_test_cromwell(config, p))

RunTestToil ==
    /\ pc = "ready" /\ ~check_only /\ runner = "toil"
    /\ Return(run_test_toil(config, p))

CheckMiniwdl ==
    /\ pc = "ready" /\ check_only /\ runner = "miniwdl"
    /\ Return(check_miniwdl(config, p, no_warn, deprecated_optional))

CheckSprocket ==
    /\ pc = "ready" /\ check_only /\ runner = "sprocket"
    /\ Return(check_sprocket(config, p, no_warn, deprecated_optional))

CheckToil ==
    /\ pc = "ready" /\ check_only /\ runner = "toil"
    /\ Return(check_toil(config, p))

NextRun == RunTestMiniwdl \/ RunTestSprocket \/ RunTestCromwell \/ RunTestToil
NextCheck == CheckMiniwdl \/ CheckSprocket \/ CheckToil

SpecRun == InitRun /\ [][NextRun]_vars
SpecCheck == InitCheck /\ [][NextCheck]_vars

\* ---------------------------------------------------------------- shared predicates
Returned == pc = "returned"
\* The executor (or check tool) was started and handed back a return code.
ExecutorReturned ==
    /\ p.launch = "ok"
    /\ runner = "sprocket" => (output_dir = "given" /\ ~check_only)
    /\ runner = "toil" => p.wdl_exists
Evaluated == Returned /\ config.priority # "ignore" /\ ExecutorReturned

\* The return-code step lets the case through in the code as written.
Succeeded == Evaluated /\ ~config.fail /\ p.returncode = 0
SetOf(seq) == {seq[j] : j \in 1..Len(seq)}

\* ================================================================ claims

\* C1: for a non-ignored case with fail = false, a non-zero executor return
\* code yields FAIL, whatever returnCodes is and whatever was printed.
C1_NonZeroAlwaysFails ==
    (Evaluated /\ ~config.fail /\ p.returncode # 0) => result = FAIL

\* C2: for a non-ignored case not expected to fail whose returnCodes is a
\* collection of codes, the case is rejected at the return-code step exactly
\* when the actual code is not a member; a member code 0 with nothing to
\* compare goes on to PASS.
C2_ReturnCodeMembership ==
    (Evaluated /\ ~config.fail /\ config.returnCodes.kind = "list") =>
        /\ ~RcMember(p.returncode, config.returnCodes) => result = FAIL
        /\ ( /\ RcMember(p.returncode, config.returnCodes)
             /\ p.returncode = 0
             /\ p.form = "object"
             /\ p.outputs = EmptyMapping
             /\ config.output = EmptyMapping ) => result = PASS

\* C3: for a non-ignored case with fail = true the verdict is PASS when the
\* return code is non-zero and FAIL when it is zero, whatever returnCodes,
\* the expected outputs and the executor's output are.
C3_ExpectedFailure ==
    (Evaluated /\ config.fail) =>
        /\ result \in {PASS, FAIL}
        /\ result = PASS <=> p.returncode # 0

C3_Witness ==
    /\ Evaluated /\ config.fail
    /\ p.returncode # 0
    /\ config.returnCodes = CodeList(<<0>>)
    /\ p.form = "garbage"
    /\ config.output # EmptyMapping
    /\ result = PASS

\* C4: a case whose priority is ignore receives IGNORE whatever the return
\* code of the executor or check tool is.
C4_IgnoreComesFirst ==
    (Returned /\ ExecutorReturned /\ config.priority = "ignore") =>
        result = IGNORE

\* C5 (as stated): in the check path, a non-ignored case whose check tool
\* reports failure gets WARN exactly when (fail and no_warn) or (deprecated
\* tag and deprecated_optional), and FAIL in every other combination.
C5_WarnOnlyWithNoWarn ==
    (Evaluated /\ check_only /\ p.returncode # 0) =>
        LET downgrade ==
                \/ config.fail /\ no_warn
                \/ "deprecated" \in config.tags /\ deprecated_optional
        IN result = IF downgrade THEN WARN ELSE FAIL

\* C5 (amended): in miniwdl's check path the verdict of such a case is WARN
\* exactly when fail is true or (deprecated tag and deprecated_optional),
\* with or without no_warn, and FAIL otherwise; toil's check gives FAIL.
C5_WarnWhenExpectedToFail ==
    (Evaluated /\ check_only /\ p.returncode # 0) =>
        /\ runner = "miniwdl" =>
              result = IF \/ config.fail
                          \/ "deprecated" \in config.tags /\ deprecated_optional
                       THEN WARN ELSE FAIL
        /\ runner = "toil" => result = FAIL

C5_Witness ==
    /\ Evaluated /\ check_only /\ p.returncode # 0
    /\ runner = "miniwdl"
    /\ config.fail /\ ~no_warn
    /\ "deprecated" \notin config.tags
    /\ result = WARN

\* C6: once the executor succeeded and its output was parsed, a produced key
\* that is neither excluded nor expected makes the verdict FAIL.
C6_UnexpectedKeyFails ==
    ( /\ Succeeded /\ p.form = "object"
      /\ \E k \in DOMAIN p.outputs :
            k \notin config.exclude_output /\ k \notin DOMAIN config.output )
    => result = FAIL

\* C7: two executor results that differ only in excluded keys (their values
\* or their presence) receive the same verdict.
C7_ExcludedKeysIgnored ==
    (Succeeded /\ p.form = "object") =>
        \A alt \in Mappings(ProducedValues) :
            (\A k \in Keys \ config.exclude_output :
                /\ k \in DOMAIN alt <=> k \in DOMAIN p.outputs
                /\ k \in DOMAIN alt => alt[k] = p.outputs[k])
            => RunTest(runner, config, [p EXCEPT !.outputs = alt], output_dir)
                 = result

\* C8: when the executor returned success for a case not expected to fail
\* and its structured output is missing or is not parseable, the verdict is
\* FAIL.
C8_UnparsedOutputFails ==
    (Succeeded /\ p.form \in {"missing", "garbage"}) => result = FAIL

C10_NonPathStringsLiteral ==
    ( /\ Succeeded /\ p.form = "object"
      /\ \E k \in DOMAIN p.outputs \cap DOMAIN config.output :
            /\ k \notin config.exclude_output
            /\ p.outputs[k].kind = "str" /\ config.output[k].kind = "str"
            /\ ~PathExists(p.outputs[k].segs)
            /\ ~PathExists(config.output[k].segs)
            /\ p.outputs[k] # config.output[k] )
    => result = FAIL

\* ================================================================ extraction
\* scripts/extract_tests.py.  Text is a sequence of symbols (characters for
\* file names, whole words for program source); JSON values are records
\* [kind, chars, elems]: a string keeps its symbols in chars, a list keeps
\* its strings in elems, a number keeps its decimal text in chars.
JStr(chars) == [kind |-> "str", chars |-> chars, elems |-> <<>>]
JList(elems) == [kind |-> "list", chars |-> <<>>, elems |-> elems]
JNum(text) == [kind |-> "num", chars |-> <<text>>, elems |-> <<>>]
JBool(b) == [kind |-> "bool", chars |-> <<IF b THEN "true" ELSE "false">>,
             elems |-> <<>>]
\* A JSON object taken as a whole; JObj("{}") is the empty mapping.
JObj(tag) == [kind |-> "object", chars |-> <<tag>>, elems |-> <<>>]

EmptyDict == [k \in {} |-> JObj("{}")]
Put(f, k, v) == [x \in DOMAIN f \cup {k} |-> IF x = k THEN v ELSE f[x]]

\* ---------------------------------------------------------------- FILENAME_RE
FailMarker == <<"_", "f", "a", "i", "l">>
TaskMarker == <<"_", "t", "a", "s", "k">>
WdlExt == <<".", "w", "d", "l">>

HasAt(s, at, pat) ==
    /\ at + Len(pat) - 1 <= Len(s)
    /\ \A j \in 1..Len(pat) : s[at + j - 1] = pat[j]
\* ".wdl" of the pattern: the dot is unescaped and stands for any character.
AnyWdlAt(s, at) ==
    /\ at + 3 <= Len(s)
    /\ s[at + 1] = "w" /\ s[at + 2] = "d" /\ s[at + 3] = "l"

\* The alternatives of (_fail)?(_task)? after a target of n symbols, in the
\* order the regex engine tries them (each optional group greedy).
MarkerTries(s, n) ==
    << [ok |-> /\ HasAt(s, n + 1, FailMarker)
               /\ HasAt(s, n + 1 + Len(FailMarker), TaskMarker)
               /\ AnyWdlAt(s, n + 1 + Len(FailMarker) + Len(TaskMarker)),
        is_fail |-> TRUE, is_task |-> TRUE],
       [ok |-> /\ HasAt(s, n + 1, FailMarker)
               /\ AnyWdlAt(s, n + 1 + Len(FailMarker)),
        is_fail |-> TRUE, is_task |-> FALSE],
       [ok |-> /\ HasAt(s, n + 1, TaskMarker)
               /\ AnyWdlAt(s, n + 1 + Len(TaskMarker)),
        is_fail |-> FALSE, is_task |-> TRUE],
       [ok |-> AnyWdlAt(s, n + 1),
        is_fail |-> FALSE, is_task |-> FALSE] >>

TargetFits(s, n) == \E t \in 1..4 : MarkerTries(s, n)[t].ok

\* FILENAME_RE.match(file_name): the lazy (.+?) takes the shortest target
\* after which the rest of the pattern matches; the match is anchored at the
\* start only.
FILENAME_RE(s) ==
    IF \E n \in 1..Len(s) : TargetFits(s, n)
    THEN LET n == CHOOSE k \in 1..Len(s) :
                    TargetFits(s, k) /\ \A j \in 1..(k - 1) : ~TargetFits(s, j)
             t == CHOOSE k \in 1..4 :
                    /\ MarkerTries(s, n)[k].ok
                    /\ \A j \in 1..(k - 1) : ~MarkerTries(s, n)[j].ok
         IN [matched |-> TRUE, target |-> SubSeq(s, 1, n),
             is_fail |-> MarkerTries(s, n)[t].is_fail,
             is_task |-> MarkerTries(s, n)[t].is_task]
    ELSE [matched |-> FALSE, target |-> <<>>,
          is_fail |-> FALSE, is_task |-> FALSE]

\* ---------------------------------------------------------------- VERSION_RE
\* Words made of digits and dots only, the class [\d.]+ of VERSION_RE.
NumericWords == {"1.0", "1.1", "1.2", "2.0", "1"}
VersionHit(wdl, j) ==
    j + 1 <= Len(wdl) /\ wdl[j] = "version" /\ wdl[j + 1] \in NumericWords
\* VERSION_RE.search(wdl): the first "version <digits and dots>" of the
\* source; found = FALSE is Python's None.
VERSION_RE(wdl) ==
    IF \E j \in 1..Len(wdl) : VersionHit(wdl, j)
    THEN LET j == CHOOSE k \in 1..Len(wdl) :
                    VersionHit(wdl, k) /\ \A h \in 1..(k - 1) : ~VersionHit(wdl, h)
         IN [found |-> TRUE, group |-> wdl[j + 1]]
    ELSE [found |-> FALSE, group |-> ""]

\* ---------------------------------------------------------------- write_test_files
\* A fenced JSON section of the match: kind "none" (group is None), "blank"
\* (whitespace only), "invalid" (json.loads raises) or "json" with its value.
NoSection == [kind |-> "none", value |-> JObj("{}")]
BlankSection == [kind |-> "blank", value |-> JObj("{}")]
InvalidSection == [kind |-> "invalid", value |-> JObj("{}")]
JsonSection(v) == [kind |-> "json", value |-> v]

\* The four fields that a bare string is promoted to a one-element list in.
PromoteOrDefault(entry, k, dflt) ==
    IF k \notin DOMAIN entry THEN Put(entry, k, dflt)
    ELSE IF entry[k].kind = "str" THEN Put(entry, k, JList(<<entry[k].chars>>))
    ELSE entry
SetDefault_always(entry, k, dflt) == Put(entry, k, dflt)
SetDefault(entry, k, dflt) ==
    IF k \notin DOMAIN entry THEN Put(entry, k, dflt) ELSE entry
SectionValue(sec) == IF sec.kind = "json" THEN sec.value ELSE JObj("{}")

\* Lines 42-86: the record built from the parsed test config (a mapping of
\* field names to JSON values, empty when the section is absent).
BuildEntry(parsed, f, file_name, input_json, output_json) ==
    LET e1 == Put(Put(parsed, "id", JStr(f.target)), "path", JStr(file_name))
        e2 == SetDefault(e1, "type",
                  JStr(<<IF f.is_task THEN "task" ELSE "workflow">>))
        e3 == SetDefault(e2, "target", JStr(f.target))
        e4 == SetDefault(e3, "priority", JStr(<<"required">>))
        e5 == SetDefault(e4, "fail", JBool(f.is_fail))
        e6 == PromoteOrDefault(e5, "exclude_output", JList(<<>>))
        e7 == PromoteOrDefault(e6, "returnCodes", JStr(<<"*">>))
        e8 == PromoteOrDefault(e7, "dependencies", JList(<<>>))
        e9 == PromoteOrDefault(e8, "tags", JList(<<>>))
        e10 == Put(e9, "input", SectionValue(input_json))
    IN Put(e10, "output", SectionValue(output_json))

\* write_test_files(m, output_dir, version, config): the exception raised
\* ("ok" when none), the files of output_dir and the config list afterwards.
\* The program file is written before the test config is parsed.
write_test_files(mm, ver, existing, config_list) ==
    LET f == FILENAME_RE(mm.file_name)
        v == VERSION_RE(mm.wdl)
        written == existing \cup {mm.file_name}
        Raise(what, fls) ==
            [status |-> what, files |-> fls, config |-> config_list]
    IN IF ~f.matched THEN Raise("Invalid file name", existing)
       ELSE IF ~v.found
            THEN Raise("WDL does not contain version statement", existing)
       ELSE IF v.group # ver THEN Raise("Invalid WDL version", existing)
       ELSE IF mm.file_name \in existing
            THEN Raise("Test file already exists", existing)
       ELSE IF mm.config_json.kind \in {"invalid", "blank"}
            THEN Raise("JSONDecodeError", written)
       ELSE IF mm.input_json.kind = "invalid"
            THEN Raise("JSONDecodeError", written)
       ELSE IF mm.output_json.kind = "invalid"
            THEN Raise("JSONDecodeError", written)
       ELSE [status |-> "ok", files |-> written,
             config |-> Append(config_list,
                 BuildEntry(IF mm.config_json.kind = "none" THEN EmptyDict
                            ELSE mm.config_json.value,
                            f, mm.file_name, mm.input_json, mm.output_json))]

\* ------------------------------------------------- building one record
\* Target names an example title is built from: a plain one, one with an
\* underscore, and one that contains "wdl".
Targets == { <<"f","o","o">>, <<"a","_","b">>, <<"m","y","_","w","d","l">> }
Title(target, with_fail, with_task) ==
    target \o (IF with_fail THEN FailMarker ELSE <<>>)
           \o (IF with_task THEN TaskMarker ELSE <<>>) \o WdlExt
BuildTitles ==
    { Title(t, b, b) : t \in Targets, b \in BOOLEAN }
        \cup { Title(<<"f","o","o">>, TRUE, FALSE),
               Title(<<"f","o","o">>, FALSE, TRUE),
               <<"b","a","r",".","t","x","t">> }

\* The fields a test config may supply and the JSON values drawn for each.
ScalarOrList == { JStr(<<"s">>), JNum("1"), JList(<<<<"s">>, <<"t">>>>) }
CollectionFields == {"exclude_output", "returnCodes", "dependencies", "tags"}
ConfigFields ==
    {"type", "target", "priority", "fail", "input", "output"}
        \cup CollectionFields
FieldValues(k) ==
    CASE k = "type" -> { JStr(<<"task">>), JStr(<<"workflow">>) }
      [] k = "target" -> { JStr(<<"other">>) }
      [] k = "priority" -> { JStr(<<"ignore">>) }
      [] k = "fail" -> { JBool(TRUE), JBool(FALSE) }
      [] k \in {"input", "output"} -> { JObj("config") }
      [] OTHER -> ScalarOrList
MaxConfigFields == 2
ConfigObjects ==
    UNION { [ks -> UNION { FieldValues(k) : k \in ks }] :
            ks \in { x \in SUBSET ConfigFields :
                     Cardinality(x) <= MaxConfigFields } }
WellTyped(c) == \A k \in DOMAIN c : c[k] \in FieldValues(k)
ConfigSections ==
    { NoSection, InvalidSection }
        \cup { JsonSection(c) : c \in { x \in ConfigObjects : WellTyped(x) } }
DataSections == { NoSection, BlankSection, InvalidSection,
                  JsonSection(JObj("section")) }
\* The input and output sections of an example; one of them is absent.
SectionPairs ==
    { sp \in DataSections \X DataSections :
          sp[1] = NoSection \/ sp[2] = NoSection }
Wdl(declared) == <<"version", declared, "task">>

InitBuild ==
    /\ RunIdle /\ MainIdle
    /\ m \in { [file_name |-> t, wdl |-> Wdl("1.1"),
                 input_json |-> sp[1], output_json |-> sp[2],
                 config_json |-> c] :
                t \in BuildTitles, sp \in SectionPairs, c \in ConfigSections }
    /\ version = "1.1"
    /\ registry = <<>> /\ files = {}
    /\ ln = 0 /\ line = NoLine /\ buf = NoBuffer /\ registry_file = NoFile
    /\ result = "none" /\ pc = "ready"

\* write_test_files(m, output_dir, version, config): the record is appended
\* to the config list, or the exception's message is the result.
WriteTestFiles ==
    /\ pc = "ready"
    /\ LET r == write_test_files(m, version, files, registry)
       IN /\ result' = r.status
          /\ files' = r.files
          /\ registry' = r.config
    /\ pc' = "returned"
    /\ UNCHANGED <<runVars, mainVars, m, version, ln, line, buf, registry_file>>

NextBuild == WriteTestFiles
SpecBuild == InitBuild /\ [][NextBuild]_vars

Built == pc = "returned" /\ result = "ok"
Entry == registry[Len(registry)]
Supplied ==
    IF m.config_json.kind = "json" THEN m.config_json.value ELSE EmptyDict

\* C13: a title <target>_fail_task.wdl without a test config gives a record
\* with fail = true, type = task and id = <target>, and a title <target>.wdl
\* gives fail = false and type = workflow, for every target name.
C13_MarkersDecoded ==
    (pc = "returned" /\ m.config_json.kind = "none"
        /\ m.input_json.kind # "invalid" /\ m.output_json.kind # "invalid") =>
        \A t \in Targets :
            /\ m.file_name = Title(t, TRUE, TRUE) =>
                   /\ result = "ok"
                   /\ Entry["fail"] = JBool(TRUE)
                   /\ Entry["type"] = JStr(<<"task">>)
                   /\ Entry["id"] = JStr(t)
            /\ m.file_name = Title(t, FALSE, FALSE) =>
                   /\ result = "ok"
                   /\ Entry["fail"] = JBool(FALSE)
                   /\ Entry["type"] = JStr(<<"workflow">>)

\* C14: in every built record exclude_output, returnCodes, dependencies and
\* tags are lists (returnCodes may be the wildcard instead), whatever the
\* test config supplied, and a supplied string v has become [v].
C14_CollectionForm ==
    Built =>
        \A k \in CollectionFields :
            /\ \/ Entry[k].kind = "list"
               \/ k = "returnCodes" /\ Entry[k] = JStr(<<"*">>)
            /\ (k \in DOMAIN Supplied /\ Supplied[k].kind = "str") =>
                   Entry[k] = JList(<<Supplied[k].chars>>)

\* The value a supplied field has after scalar promotion.
Promoted(k, v) ==
    IF k \in CollectionFields /\ v.kind = "str" THEN JList(<<v.chars>>) ELSE v
\* The default the fields get that the test config does not supply.
Default(k) ==
    LET f == FILENAME_RE(m.file_name)
    IN CASE k = "type" -> JStr(<<IF f.is_task THEN "task" ELSE "workflow">>)
         [] k = "target" -> JStr(f.target)
         [] k = "priority" -> JStr(<<"required">>)
         [] k = "fail" -> JBool(f.is_fail)
         [] k = "returnCodes" -> JStr(<<"*">>)
         [] k \in {"input", "output"} -> JObj("{}")
         [] OTHER -> JList(<<>>)

\* C15 as stated: every field of the defaults table that the test config
\* supplies is carried by the record (after scalar promotion), input and
\* output included.
C15_ExplicitWinsEveryField ==
    Built =>
        \A k \in ConfigFields \cap DOMAIN Supplied :
            Entry[k] = Promoted(k, Supplied[k])

\* C15 as the code has it: the supplied value wins for type, target,
\* priority, fail, exclude_output, returnCodes, dependencies and tags, and
\* the default is used only when the field is absent; input and output are
\* always those of the example's input and output sections.
C15_ExplicitWinsExceptInputOutput ==
    Built =>
        /\ \A k \in ConfigFields \ {"input", "output"} :
               Entry[k] = IF k \in DOMAIN Supplied
                          THEN Promoted(k, Supplied[k]) ELSE Default(k)
        /\ Entry["input"] = IF m.input_json.kind = "json"
                            THEN m.input_json.value ELSE JObj("{}")
        /\ Entry["output"] = IF m.output_json.kind = "json"
                             THEN m.output_json.value ELSE JObj("{}")
C15_Witness ==
    /\ Built
    /\ m.file_name = Title(<<"f","o","o">>, TRUE, FALSE)
    /\ "fail" \in DOMAIN Supplied /\ Supplied["fail"] = JBool(FALSE)
    /\ Entry["fail"] = JBool(FALSE)
    /\ "input" \in DOMAIN Supplied /\ Entry["input"] = JObj("section")

\* ------------------------------------------------------ the version check
\* The versions main accepts for --version, and the program sources drawn:
\* one declaration of a version or of "1", or none.
Versions == {"1.0", "1.1", "1.2", "2.0", "development"}
VersionSources ==
    { Wdl(d) : d \in Versions \cup {"1"} } \cup { <<"workflow", "w">> }

InitVersion ==
    /\ RunIdle /\ MainIdle
    /\ m \in { [file_name |-> t, wdl |-> w, input_json |-> NoSection,
                 output_json |-> NoSection, config_json |-> NoSection] :
                t \in { Title(<<"f","o","o">>, FALSE, FALSE),
                        Title(<<"f","o","o">>, FALSE, TRUE) },
                w \in VersionSources }
    /\ version \in Versions
    /\ registry = <<>> /\ files = {}
    /\ ln = 0 /\ line = NoLine /\ buf = NoBuffer /\ registry_file = NoFile
    /\ result = "none" /\ pc = "ready"

SpecVersion == InitVersion /\ [][NextBuild]_vars

\* The source declares version v.
Declares(wdl, v) ==
    \E j \in 1..(Len(wdl) - 1) : wdl[j] = "version" /\ wdl[j + 1] = v

\* C16: a block is accepted exactly when its source declares the configured
\* target version, for each of 1.0, 1.1, 1.2, 2.0 and development; a source
\* with no declaration or another value aborts.
C16_AcceptedIffVersionEqual ==
    pc = "returned" => (result = "ok" <=> Declares(m.wdl, version))

\* ---------------------------------------------------------- the scanner
\* The lines of a document, by what the scanner and TEST_RE see of them:
\* prose; the line <details>; the line </details>; a line that holds both
\* delimiters; and the body of an example (its summary with the title and
\* program source and its optional sections) with the groups TEST_RE
\* captures from it.
Example(title, declared, cfg) ==
    [file_name |-> title, wdl |-> Wdl(declared), input_json |-> NoSection,
     output_json |-> NoSection, config_json |-> cfg]
Examples ==
    { Example(Title(<<"f","o","o">>, FALSE, FALSE), "1.1", NoSection),
      Example(Title(<<"f","o","o">>, FALSE, TRUE), "1.1", NoSection),
      Example(Title(<<"a","_","b">>, FALSE, FALSE), "1.0", NoSection),
      Example(Title(<<"a","_","b">>, FALSE, FALSE), "1.1", InvalidSection),
      Example(<<"b","a","r",".","t","x","t">>, "1.1", NoSection) }
Lines ==
    { [shape |-> sh, example |-> NoMatch] :
          sh \in {"prose", "open", "close", "both"} }
        \cup { [shape |-> "body", example |-> e] : e \in Examples }
HasOpen(l) == l.shape \in {"open", "both"}
HasClose(l) == l.shape \in {"close", "both"}

\* TEST_RE.match(ex): the block is <details>, one example body, </details>.
TEST_RE(ex) ==
    IF /\ Len(ex) = 3
       /\ ex[1].shape = "open" /\ ex[2].shape = "body" /\ ex[3].shape = "close"
    THEN [matched |-> TRUE, groups |-> ex[2].example]
    ELSE [matched |-> FALSE, groups |-> NoMatch]

\* Lines 99-105: what reading one line makes of the buffer, and the block
\* the line closes.
scan_closing_at_once(b, l) ==
    IF ~b.open /\ HasOpen(l)
    THEN IF HasClose(l)
         THEN [buf |-> NoBuffer, closed |-> TRUE, ex |-> <<l>>]
         ELSE [buf |-> [open |-> TRUE, lines |-> <<l>>],
               closed |-> FALSE, ex |-> <<>>]
    ELSE IF b.open
    THEN IF HasClose(l)
         THEN [buf |-> NoBuffer, closed |-> TRUE, ex |-> Append(b.lines, l)]
         ELSE [buf |-> [open |-> TRUE, lines |-> Append(b.lines, l)],
               closed |-> FALSE, ex |-> <<>>]
    ELSE [buf |-> b, closed |-> FALSE, ex |-> <<>>]
scan(b, l) ==
    IF ~b.open /\ HasOpen(l)
    THEN [buf |-> [open |-> TRUE, lines |-> <<l>>],
          closed |-> FALSE, ex |-> <<>>]
    ELSE IF b.open
    THEN IF HasClose(l)
         THEN [buf |-> NoBuffer, closed |-> TRUE, ex |-> Append(b.lines, l)]
         ELSE [buf |-> [open |-> TRUE, lines |-> Append(b.lines, l)],
               closed |-> FALSE, ex |-> <<>>]
    ELSE [buf |-> b, closed |-> FALSE, ex |-> <<>>]

\* Lines 106-115: the closed block is matched and written, or the run
\* raises.
close_block_skipping(ex, ver, existing, config_list) ==
    LET t == TEST_RE(ex)
        r == write_test_files(t.groups, ver, existing, config_list)
    IN IF ~t.matched \/ r.status # "ok"
       THEN [status |-> "ok", files |-> r.files, config |-> config_list]
       ELSE r
close_block(ex, ver, existing, config_list) ==
    LET t == TEST_RE(ex)
    IN IF ~t.matched
       THEN [status |-> "Regex does not match example", files |-> existing,
             config |-> config_list]
       ELSE write_test_files(t.groups, ver, existing, config_list)

MaxLines == 6

InitExtract ==
    /\ RunIdle /\ MainIdle
    /\ m = NoMatch /\ version = "1.1"
    /\ registry = <<>>
    /\ files \in { {}, {Title(<<"f","o","o">>, FALSE, TRUE)} }
    /\ ln = 0 /\ line = NoLine /\ buf = NoBuffer /\ registry_file = NoFile
    /\ result = "none" /\ pc = "scan"

\* One turn of `for line in s` (lines 98-115).
ReadLine ==
    /\ pc = "scan" /\ ln < MaxLines
    /\ \E l \in Lines :
        LET s == scan(buf, l)
            r == close_block(s.ex, version, files, registry)
        IN /\ line' = l
           /\ ln' = ln + 1
           /\ buf' = s.buf
           /\ IF s.closed
              THEN /\ m' = TEST_RE(s.ex).groups
                   /\ files' = r.files
                   /\ registry' = r.config
                   /\ result' = r.status
                   /\ pc' = IF r.status = "ok" THEN "scan" ELSE "raised"
              ELSE UNCHANGED <<m, files, registry, result, pc>>
    /\ UNCHANGED <<runVars, mainVars, version, registry_file>>

\* The end of the document: lines 117-119 write test_config.json.
EndOfInput ==
    /\ pc = "scan"
    /\ registry_file' = [written |-> TRUE, content |-> registry]
    /\ pc' = "done"
    /\ UNCHANGED <<runVars, mainVars, result, m, version, registry, files,
                   ln, line, buf>>

NextExtract == ReadLine \/ EndOfInput
SpecExtract == InitExtract /\ [][NextExtract]_vars

\* A step that reads a line, and one that reads the line closing a block.
Reads == pc = "scan" /\ ln' = ln + 1
Closes == Reads /\ buf.open /\ HasClose(line')
\* The closed block passes the example grammar, the filename grammar, the
\* version check and the test-config parse and names a file not yet there.
GoodBlock(ex, existing) ==
    /\ Len(ex) = 3
    /\ ex[1].shape = "open" /\ ex[2].shape = "body" /\ ex[3].shape = "close"
    /\ \E t \in Targets, wf \in BOOLEAN, wt \in BOOLEAN :
           ex[2].example.file_name = Title(t, wf, wt)
    /\ Declares(ex[2].example.wdl, version)
    /\ ex[2].example.config_json.kind # "invalid"
    /\ ex[2].example.file_name \notin existing

\* C11: extraction is fail-fast: a closed block that fails the example
\* grammar, the filename grammar, the version check or the test-config
\* parse, or names a file that exists, aborts the run at that block, and
\* test_config.json is written only by a run that processed every block.
C11_FailFast ==
    /\ [][ (Closes /\ ~GoodBlock(Append(buf.lines, line'), files)) =>
               (pc' = "raised" /\ ~registry_file'.written) ]_vars
    /\ [](pc = "raised" => ~registry_file.written)
    /\ [](registry_file.written => pc = "done")
C11_Witness ==
    /\ pc = "raised" /\ result = "Test file already exists"
    /\ Len(registry) = 1 /\ ~registry_file.written

\* C12: after a successful extraction no two records of the registry have
\* the same id, and no two have the same path.
C12_UniqueIdAndPath ==
    pc = "done" =>
        \A a, b \in 1..Len(registry) :
            a # b => /\ registry[a]["id"] # registry[b]["id"]
                     /\ registry[a]["path"] # registry[b]["path"]

\* C19: in one pass, a line with the opening delimiter read while no block
\* is open opens a block (and does not close it); other lines outside a
\* block are discarded; inside a block every line is kept and the first
\* line with the closing delimiter closes the block, whatever else it
\* holds; a block still open at the end of input is dropped, the run ending
\* normally with test_config.json holding the earlier blocks.
C19_ScannerPass ==
    /\ [][ Reads =>
             /\ (~buf.open /\ HasOpen(line')) =>
                    /\ buf' = [open |-> TRUE, lines |-> <<line'>>]
                    /\ UNCHANGED <<registry, pc>>
             /\ (~buf.open /\ ~HasOpen(line')) =>
                    /\ buf' = NoBuffer
                    /\ UNCHANGED <<registry, pc>>
             /\ (buf.open /\ ~HasClose(line')) =>
                    /\ buf' = [open |-> TRUE,
                               lines |-> Append(buf.lines, line')]
                    /\ UNCHANGED <<registry, pc>>
             /\ (buf.open /\ HasClose(line')) =>
                    /\ buf' = NoBuffer
                    /\ \/ pc' = "raised"
                       \/ /\ Len(buf.lines) = 2
                          /\ Len(registry') = Len(registry) + 1
                          /\ m' = buf.lines[2].example ]_vars
    /\ [][ (pc = "scan" /\ pc' = "done") =>
             /\ registry_file' = [written |-> TRUE, content |-> registry]
             /\ result' = result ]_vars
C19_Witness ==
    /\ pc = "done" /\ buf.open /\ buf.lines[1].shape = "both"
    /\ Len(registry) = 1 /\ registry_file.content = registry

\* ------------------------------------------------------- the main loops
MaxTests == 2

\* The registry main loads: the k-th case has its own path.
MainCases(k) ==
    { c \in [path : {"t" \o ToString(k) \o ".wdl"},
             priority : {"required", "ignore"}, fail : BOOLEAN,
             returnCodes : {Wildcard}, exclude_output : {{}},
             output : {EmptyMapping}, tags : {{}}] : TRUE }
\* What the executor (run mode) or the check tool (check-only) does on a
\* case.
MainOutcomes(co) ==
    { q \in Outcomes :
        /\ q.outputs = EmptyMapping
        /\ q.form = IF co \/ q.launch = "error" \/ ~q.wdl_exists
                    THEN "missing" ELSE "object" }

InitMain ==
    /\ ExtractIdle
    /\ runner \in Runners
    /\ check_only \in BOOLEAN
    /\ check_only => runner \in CheckRunners
    /\ no_warn = FALSE /\ deprecated_optional = FALSE
    /\ output_dir \in {"given", "none"}
    /\ output_dir = "none" => runner = "sprocket"
    /\ fs = "file"
    /\ \E n \in 0..MaxTests :
        /\ configs \in { cs \in [1..n -> UNION { MainCases(k) : k \in 1..n }] :
                            \A k \in 1..n : cs[k] \in MainCases(k) }
        /\ outcomes \in [1..n -> MainOutcomes(check_only)]
        /\ \A k \in 1..n : ~outcomes[k].wdl_exists => runner = "toil"
    /\ config = EmptyMapping /\ p = EmptyMapping
    /\ i = 0 /\ results = ZeroTally /\ failed_tests = <<>>
    /\ failed_file = NoFile
    /\ result = "none" /\ pc = "loop"

\* One turn of `for config in configs`: the case is evaluated; its verdict
\* is tallied and its path stored as `record` says, or the exception leaves
\* main.
Turn(verdict, record) ==
    /\ i' = i + 1
    /\ config' = configs[i + 1] /\ p' = outcomes[i + 1]
    /\ result' = verdict
    /\ IF verdict = RAISED
       THEN /\ pc' = "crashed"
            /\ UNCHANGED <<results, failed_tests>>
       ELSE /\ pc' = "loop"
            /\ results' = [results EXCEPT ![verdict] = @ + 1]
            /\ failed_tests' = IF record /\ verdict = FAIL
                               THEN Append(failed_tests, configs[i + 1].path)
                               ELSE failed_tests
    /\ UNCHANGED <<runner, check_only, no_warn, deprecated_optional,
                   output_dir, fs, extractVars, configs, outcomes,
                   failed_file>>

MainMiniwdl ==
    /\ pc = "loop" /\ runner = "miniwdl" /\ i < Len(configs)
    /\ Turn(IF check_only
            THEN check_miniwdl(configs[i + 1], outcomes[i + 1], no_warn,
                               deprecated_optional)
            ELSE run_test_miniwdl(configs[i + 1], outcomes[i + 1]),
            ~check_only)

MainSprocket ==
    /\ pc = "loop" /\ runner = "sprocket" /\ i < Len(configs)
    /\ Turn(IF check_only
            THEN check_sprocket(configs[i + 1], outcomes[i + 1], no_warn,
                                deprecated_optional)
            ELSE run_test_sprocket(configs[i + 1], outcomes[i + 1],
                                   output_dir),
            ~check_only)

MainCromwell ==
    /\ pc = "loop" /\ runner = "cromwell" /\ i < Len(configs)
    /\ Turn(run_test_cromwell(configs[i + 1], outcomes[i + 1]), TRUE)

MainToil ==
    /\ pc = "loop" /\ runner = "toil" /\ i < Len(configs)
    /\ Turn(IF check_only
            THEN check_toil(configs[i + 1], outcomes[i + 1])
            ELSE run_test_toil(configs[i + 1], outcomes[i + 1]),
            TRUE)

\* After the loop: failed_tests.txt is written (by cromwell always, by the
\* others when a path was stored) and the tally is printed.
Summary ==
    /\ pc = "loop" /\ i = Len(configs)
    /\ failed_file' = IF runner = "cromwell" \/ failed_tests # <<>>
                      THEN [written |-> TRUE, content |-> failed_tests]
                      ELSE failed_file
    /\ pc' = "done"
    /\ UNCHANGED <<runVars, result, extractVars, configs, outcomes, i,
                   results, failed_tests>>

NextMain ==
    MainMiniwdl \/ MainSprocket \/ MainCromwell \/ MainToil \/ Summary
SpecMain == InitMain /\ [][NextMain]_vars

Tallied == results[PASS] + results[WARN] + results[FAIL]
               + results[INVALID] + results[IGNORE]
\* The executor (or check tool) could be started on every case.
ExecutorStarts == \A k \in 1..Len(outcomes) : outcomes[k].launch = "ok"

\* C17: whatever the registry holds and the executor does on a case, the
\* loop does not stop at a case: each case evaluated so far has one verdict
\* in the tally, and at the summary the tally sums to the number of cases.
C17_EveryCaseGetsAVerdict ==
    ExecutorStarts =>
        /\ pc # "crashed"
        /\ Tallied = i
        /\ pc = "done" => Tallied = Len(configs)

\* The verdict main gets for the k-th case.
Verdict(k) ==
    IF check_only
    THEN IF runner = "miniwdl"
         THEN check_miniwdl(configs[k], outcomes[k], no_warn,
                            deprecated_optional)
         ELSE IF runner = "sprocket"
         THEN check_sprocket(configs[k], outcomes[k], no_warn,
                             deprecated_optional)
         ELSE check_toil(configs[k], outcomes[k])
    ELSE RunTest(runner, configs[k], outcomes[k], output_dir)
\* The paths of the first k cases whose verdict is FAIL, in registry order.
RECURSIVE FailPaths(_)
FailPaths(k) ==
    IF k = 0 THEN <<>>
    ELSE IF Verdict(k) = FAIL THEN Append(FailPaths(k - 1), configs[k].path)
    ELSE FailPaths(k - 1)

\* C18: at the end of a run, in run mode and in check-only mode, the
\* failed-tests list is the paths of the cases whose verdict was FAIL, once
\* each and in registry order, as many as the Failures count.
C18_FailedTestsAreTheFailures ==
    pc = "done" =>
        /\ failed_tests = FailPaths(Len(configs))
        /\ Len(failed_tests) = results[FAIL]
====
